---- MODULE Spec2Model ----
(***************************************************************************)
(* Verification model of the work-hours tally (src/parser.py, src/main.py). *)
(*                                                                         *)
(* Text is a sequence of one-character strings.  A float number of hours   *)
(* h + m / 60 is represented exactly by the integer 60 * h + m (its value   *)
(* in sixtieths of an hour), so that equality of totals is decidable.       *)
(***************************************************************************)
EXTENDS Integers, Sequences, FiniteSets, TLC

VARIABLES
    program,      \* which script runs: "parser.py", "main.py", or the parser alone
    time_list,    \* the argument of get_total_hours under test (a list of str)
    book,         \* OdsBookBase.book: sheet name -> pyexcel sheet [colnames, rows]
    sheet_names,  \* OdsBookBase.sheet_names
    _sheet,       \* OdsBookBase._sheet: "None", or the name of the wrapped sheet
    main_sheet,   \* the local `sheet` of main.py: [loaded, colnames, rows]
    stdout,       \* the lines printed so far
    ret,          \* outcome of the last call
    book0         \* history: the workbook as read from the file

vars == <<program, time_list, book, sheet_names, _sheet, main_sheet, stdout,
          ret, book0>>

\* outcome of a call: the operation, "ok" or the exception raised, the value
\* returned, the name argument, the header row argument, and (for the
\* workbook loop) the position in sheet_names the call stopped at
Ret(op, status, value, arg, idx, at) ==
    [op |-> op, status |-> status, value |-> value, arg |-> arg, idx |-> idx,
     at |-> at]

NoneValue == [type |-> "NoneType", n |-> 0]

None == Ret("none", "none", <<>>, <<>>, NoneValue, 0)

----------------------------------------------------------------------------
(* Bounds of the duration-parser inputs.                                   *)

MaxAtoms == 4
MaxEntries == 2

----------------------------------------------------------------------------
(* Python str / re primitives used by the parser.                          *)

Digits == {"0", "1", "2", "3", "4", "5", "6", "7", "8", "9"}
Whitespace == {" "}
Letters == {"h", "m", "i", "n", "o", "u", "r", "t", "e", "d", "a", "x"}

DigitValue(c) ==
    CASE c = "0" -> 0 [] c = "1" -> 1 [] c = "2" -> 2 [] c = "3" -> 3
      [] c = "4" -> 4 [] c = "5" -> 5 [] c = "6" -> 6 [] c = "7" -> 7
      [] c = "8" -> 8 [] c = "9" -> 9

\* int(s) for a string of decimal digits
RECURSIVE int(_)
int(s) ==
    IF s = <<>> THEN 0
    ELSE 10 * int(SubSeq(s, 1, Len(s) - 1)) + DigitValue(s[Len(s)])

\* sep.join(list)
RECURSIVE join(_, _)
join(sep, list) ==
    IF list = <<>> THEN <<>>
    ELSE IF Len(list) = 1 THEN list[1]
    ELSE list[1] \o sep \o join(sep, Tail(list))

RECURSIVE sum(_)
sum(list) == IF list = <<>> THEN 0 ELSE list[1] + sum(Tail(list))

\* does the literal lit occur in s at position i
LiteralAt(s, i, lit) ==
    /\ i >= 1
    /\ i + Len(lit) - 1 <= Len(s)
    /\ \A j \in 1..Len(lit) : s[i + j - 1] = lit[j]

\* last position of the longest run of digits starting at i (i - 1 if none)
RECURSIVE DigitRunEnd(_, _)
DigitRunEnd(s, i) ==
    IF i <= Len(s) /\ s[i] \in Digits THEN DigitRunEnd(s, i + 1) ELSE i - 1

\* the pattern without \s?: the unit must follow the digits at once
UnitAfter_NoWhitespace(s, k, unit) ==
    IF LiteralAt(s, k + 1, unit) THEN k + Len(unit) ELSE 0

\* the pattern with a word boundary after the unit
UnitAfter_WordBoundary(s, k, unit) ==
    LET e == IF k + 1 <= Len(s) /\ s[k + 1] \in Whitespace /\ LiteralAt(s, k + 2, unit)
             THEN k + 1 + Len(unit)
             ELSE IF LiteralAt(s, k + 1, unit) THEN k + Len(unit)
             ELSE 0
    IN  IF e # 0 /\ e + 1 <= Len(s) /\ s[e + 1] \in Letters THEN 0 ELSE e

\* with \d+ having consumed s[i..k]: \s? greedy (one whitespace first, then
\* none), then the literal unit; the end of the match, or 0
UnitAfter(s, k, unit) ==
    IF k + 1 <= Len(s) /\ s[k + 1] \in Whitespace /\ LiteralAt(s, k + 2, unit)
    THEN k + 1 + Len(unit)
    ELSE IF LiteralAt(s, k + 1, unit) THEN k + Len(unit)
    ELSE 0

\* \d+ greedy with backtracking: digits s[i..k] for k from the longest run down
RECURSIVE Backtrack(_, _, _, _)
Backtrack(s, i, k, unit) ==
    IF k < i THEN 0
    ELSE LET e == UnitAfter(s, k, unit)
         IN  IF e # 0 THEN e ELSE Backtrack(s, i, k - 1, unit)

\* re.match of (\d+\s?unit) at position i of s: end of the match, or 0
MatchUnitAt(s, i, unit) == Backtrack(s, i, DigitRunEnd(s, i), unit)

\* re.findall(r"(\d+\s?unit)", s): leftmost, non-overlapping matches
RECURSIVE FindAllFrom(_, _, _)
FindAllFrom(s, i, unit) ==
    IF i > Len(s) THEN <<>>
    ELSE LET e == MatchUnitAt(s, i, unit)
         IN  IF e # 0 THEN <<SubSeq(s, i, e)>> \o FindAllFrom(s, e + 1, unit)
             ELSE FindAllFrom(s, i + 1, unit)

\* re.findall(r"\d+", s)
RECURSIVE FindAllDigitsFrom(_, _)
FindAllDigitsFrom(s, i) ==
    IF i > Len(s) THEN <<>>
    ELSE LET e == DigitRunEnd(s, i)
         IN  IF e >= i THEN <<SubSeq(s, i, e)>> \o FindAllDigitsFrom(s, e + 1)
             ELSE FindAllDigitsFrom(s, i + 1)

DIGITS_REGEX(s) == FindAllDigitsFrom(s, 1)
HOUR_REGEX(s) == FindAllFrom(s, 1, <<"h">>)
MINUTES_REGEX(s) == FindAllFrom(s, 1, <<"m", "i", "n">>)

\* sum(map(int, list))
SumInts(list) == sum([k \in 1..Len(list) |-> int(list[k])])

----------------------------------------------------------------------------
(* TimeColumn (src/parser.py).                                             *)

parse_and_sum_hours(time_string) ==
    LET hours_string_list == HOUR_REGEX(time_string)
    IN  IF hours_string_list # <<>>
        THEN SumInts(DIGITS_REGEX(join(<<" ">>, hours_string_list)))
        ELSE 0

parse_and_sum_minutes(time_string) ==
    LET minutes_string_list == MINUTES_REGEX(time_string)
    IN  IF minutes_string_list # <<>>
        THEN SumInts(DIGITS_REGEX(join(<<" ">>, minutes_string_list)))
        ELSE 0

\* hours + minutes / 60, in sixtieths
TimeColumn_get_total_hours(list) ==
    LET time_string == join(<<" ">>, list)
        hours == parse_and_sum_hours(time_string)
        minutes == parse_and_sum_minutes(time_string)
    IN  60 * hours + minutes

----------------------------------------------------------------------------
(* The standalone script's copy of the parser (src/main.py).               *)

main_parse_and_sum_hours(time_string) ==
    LET hours_string_list == FindAllFrom(time_string, 1, <<"h">>)
    IN  IF hours_string_list # <<>>
        THEN SumInts(DIGITS_REGEX(join(<<" ">>, hours_string_list)))
        ELSE 0

main_parse_and_sum_minutes(time_string) ==
    LET minutes_string_list == FindAllFrom(time_string, 1, <<"m", "i", "n">>)
    IN  IF minutes_string_list # <<>>
        THEN SumInts(DIGITS_REGEX(join(<<" ">>, minutes_string_list)))
        ELSE 0

main_get_total_hours(list) ==
    LET time_string == join(<<" ">>, list)
        hours == main_parse_and_sum_hours(time_string)
        minutes == main_parse_and_sum_minutes(time_string)
    IN  60 * hours + minutes

----------------------------------------------------------------------------
(* Values a caller may pass as the header row index.                       *)

IntValue(n) == [type |-> "int", n |-> n]
\* a str of length n ("" for n = 0)
StrValue(n) == [type |-> "str", n |-> n]

\* Python truth value: None, 0 and "" are falsy
Truthy(v) == v.type # "NoneType" /\ v.n # 0

----------------------------------------------------------------------------
(* The pyexcel sheet as src/parser.py and src/main.py use it.  A sheet is   *)
(* [colnames, rows]; colnames is <<>> until a header row is assigned.       *)

\* how many of list[1..k-1] equal list[k]
EarlierEqual(list, k) == Cardinality({j \in 1..(k - 1) : list[j] = list[k]})

DigitChar(n) ==
    CASE n = 0 -> "0" [] n = 1 -> "1" [] n = 2 -> "2" [] n = 3 -> "3"
      [] n = 4 -> "4" [] n = 5 -> "5" [] n = 6 -> "6" [] n = 7 -> "7"
      [] n = 8 -> "8" [] n = 9 -> "9"

\* column names are made unique: a repeated name x becomes x-1, x-2, ...
make_names_unique(list) ==
    [k \in 1..Len(list) |->
        IF EarlierEqual(list, k) = 0 THEN list[k]
        ELSE list[k] \o <<"-", DigitChar(EarlierEqual(list, k))>>]

RemoveAt(list, k) == SubSeq(list, 1, k - 1) \o SubSeq(list, k + 1, Len(list))

\* sheet.name_columns_by_row(row_index): the row becomes the column names
\* and is deleted from the sheet's data
name_columns_by_row(sheet, row_index) ==
    IF row_index.type # "int"
    THEN [status |-> "TypeError", sheet |-> sheet]
    ELSE IF row_index.n + 1 > Len(sheet.rows)
    THEN [status |-> "IndexError", sheet |-> sheet]
    ELSE [status |-> "ok",
          sheet |-> [colnames |-> make_names_unique(sheet.rows[row_index.n + 1]),
                     rows |-> RemoveAt(sheet.rows, row_index.n + 1)]]

\* list.index(x): the first position of x (0-based), or -1 for ValueError
index(list, x) ==
    IF \E k \in 1..Len(list) : list[k] = x
    THEN (CHOOSE k \in 1..Len(list) :
              list[k] = x /\ \A j \in 1..(k - 1) : list[j] # x) - 1
    ELSE -1

number_of_columns(sheet) ==
    IF Len(sheet.rows) > 0 THEN Len(sheet.rows[1]) ELSE 0

\* a lookup that falls back to the first column for an unknown name
named_column_at_FirstColumn(sheet, name) ==
    LET i == IF index(sheet.colnames, name) = -1 THEN 0
             ELSE index(sheet.colnames, name)
    IN  IF i >= number_of_columns(sheet)
        THEN [status |-> "IndexError", value |-> <<>>]
        ELSE [status |-> "ok",
              value |-> [r \in 1..Len(sheet.rows) |-> sheet.rows[r][i + 1]]]

\* sheet.named_column_at(name): the values of the column named name
named_column_at(sheet, name) ==
    LET i == index(sheet.colnames, name)
    IN  IF i = -1 THEN [status |-> "ValueError", value |-> <<>>]
        ELSE IF i >= number_of_columns(sheet)
        THEN [status |-> "IndexError", value |-> <<>>]
        ELSE [status |-> "ok",
              value |-> [r \in 1..Len(sheet.rows) |-> sheet.rows[r][i + 1]]]

\* book.sheet_by_name(name): the book's own sheet object, not a copy
sheet_by_name(b, name) ==
    IF name \in DOMAIN b THEN [status |-> "ok", sheet |-> b[name]]
    ELSE [status |-> "KeyError", sheet |-> [colnames |-> <<>>, rows |-> <<>>]]

----------------------------------------------------------------------------
(* BaseSheet, TimeSheet, MainSheet (src/parser.py).                        *)

_set_columns_names(sheet, row_index) ==
    LET ri == IF ~Truthy(row_index) THEN IntValue(0) ELSE row_index
        r == name_columns_by_row(sheet, ri)
    IN  IF r.status = "TypeError"
        THEN [status |-> "IsNoneException", sheet |-> sheet]
        ELSE r

\* MainSheet(sheet, name_columns_by_row): BaseSheet.__init__
MainSheet(sheet, name_columns_by_row_) == _set_columns_names(sheet, name_columns_by_row_)

get_column_data(sheet, column_name) == named_column_at(sheet, column_name)

\* TimeSheet.get_total_hours(column_name)
TimeSheet_get_total_hours(sheet, column_name) ==
    LET data == get_column_data(sheet, column_name)
    IN  IF data.status # "ok" THEN [status |-> data.status, value |-> 0]
        ELSE [status |-> "ok", value |-> TimeColumn_get_total_hours(data.value)]

----------------------------------------------------------------------------
(* OdsBookBase, OdsBookTimeSheets (src/parser.py).                         *)

\* the for loop of OdsBookTimeSheets.get_total_hours from position k on:
\* the book afterwards, and the result or the exception that ended the loop
RECURSIVE SheetsLoop(_, _, _, _, _, _, _)
SheetsLoop(b, names, k, sheets_total_hours, total_hours, column_name, idx) ==
    IF k > Len(names)
    THEN [status |-> "ok", book |-> b, value |-> <<sheets_total_hours, total_hours>>,
          at |-> k]
    ELSE
      LET name == names[k]
          sheet_data == sheet_by_name(b, name)
          sheet == MainSheet(sheet_data.sheet, idx)
          b2 == [b EXCEPT ![name] = sheet.sheet]
          sheet_total_hours == TimeSheet_get_total_hours(sheet.sheet, column_name)
      IN  IF sheet_data.status # "ok"
          THEN [status |-> sheet_data.status, book |-> b, value |-> <<>>, at |-> k]
          ELSE IF sheet.status # "ok"
          THEN [status |-> sheet.status, book |-> b, value |-> <<>>, at |-> k]
          ELSE IF sheet_total_hours.status # "ok"
          THEN [status |-> sheet_total_hours.status, book |-> b2, value |-> <<>>,
                at |-> k]
          ELSE SheetsLoop(b2, names, k + 1,
                          Append(sheets_total_hours, <<name, sheet_total_hours.value>>),
                          total_hours + sheet_total_hours.value, column_name, idx)

\* a loop that skips a failing sheet and still returns the other totals
RECURSIVE SheetsLoop_Isolated(_, _, _, _, _, _, _, _)
SheetsLoop_Isolated(b, names, k, sheets_total_hours, total_hours, column_name, idx,
                    failed) ==
    IF k > Len(names)
    THEN [status |-> IF failed = 0 THEN "ok" ELSE "ValueError", book |-> b,
          value |-> <<sheets_total_hours, total_hours>>,
          at |-> IF failed = 0 THEN k ELSE failed]
    ELSE
      LET name == names[k]
          sheet == MainSheet(b[name], idx)
          b2 == [b EXCEPT ![name] = sheet.sheet]
          sheet_total_hours == TimeSheet_get_total_hours(sheet.sheet, column_name)
      IN  IF sheet.status # "ok" \/ sheet_total_hours.status # "ok"
          THEN SheetsLoop_Isolated(b2, names, k + 1, sheets_total_hours, total_hours,
                                   column_name, idx, IF failed = 0 THEN k ELSE failed)
          ELSE SheetsLoop_Isolated(b2, names, k + 1,
                   Append(sheets_total_hours, <<name, sheet_total_hours.value>>),
                   total_hours + sheet_total_hours.value, column_name, idx, failed)

get_total_hours_Isolated(b, names, column_name, idx) ==
    SheetsLoop_Isolated(b, names, 1, <<>>, 0, column_name, idx, 0)

OdsBookTimeSheets_get_total_hours(b, names, column_name, idx) ==
    SheetsLoop(b, names, 1, <<>>, 0, column_name, idx)

\* the lines print_total_hours writes for a result
ReportLines(sheets_total_hours, total_hours) ==
    LET PerSheet(k) == <<sheets_total_hours[k][1], "|", sheets_total_hours[k][2]>>
        Separator == <<"----------------------------------------">>
        RECURSIVE Lines(_)
        Lines(k) == IF k > Len(sheets_total_hours) THEN <<>>
                    ELSE <<PerSheet(k), Separator>> \o Lines(k + 1)
    IN  Lines(1) \o << <<"Total:", total_hours>> >>

\* what print_total_hours writes: nothing unless get_total_hours returned
print_total_hours(r) ==
    IF r.status = "ok" THEN ReportLines(r.value[1], r.value[2]) ELSE <<>>

\* a load_sheet that stores the wrapper before the header row is assigned
load_sheet_AssignFirst(b, current, sheet_name, idx) ==
    LET sheet == sheet_by_name(b, sheet_name)
        main == MainSheet(sheet.sheet, idx)
    IN  IF sheet.status # "ok"
        THEN [status |-> sheet.status, book |-> b, _sheet |-> current]
        ELSE IF main.status # "ok"
        THEN [status |-> main.status, book |-> b, _sheet |-> sheet_name]
        ELSE [status |-> "ok", book |-> [b EXCEPT ![sheet_name] = main.sheet],
              _sheet |-> sheet_name]

\* load_sheet(sheet_name, name_columns_by_row): the sheet afterwards and
\* the new value of _sheet
load_sheet(b, current, sheet_name, idx) ==
    LET sheet == sheet_by_name(b, sheet_name)
        main == MainSheet(sheet.sheet, idx)
    IN  IF sheet.status # "ok"
        THEN [status |-> sheet.status, book |-> b, _sheet |-> current]
        ELSE IF main.status # "ok"
        THEN [status |-> main.status, book |-> b, _sheet |-> current]
        ELSE [status |-> "ok", book |-> [b EXCEPT ![sheet_name] = main.sheet],
              _sheet |-> sheet_name]

\* the `sheet` property
sheet_property(current) ==
    IF current = "None" THEN [status |-> "AssertionError", value |-> "None"]
    ELSE [status |-> "ok", value |-> current]

----------------------------------------------------------------------------
(* The workbooks the model is checked on.                                   *)

MaxRows == 3

date == <<"d", "a", "t", "e">>
ticket == <<"t", "i", "c", "k", "e", "t">>
time == <<"t", "i", "m", "e">>
day_total_hours ==
    <<"d", "a", "y", " ", "t", "o", "t", "a", "l", " ", "h", "o", "u", "r", "s">>

SHEET_COLUMN_NAMES == <<date, ticket, time, day_total_hours>>

\* a day's row whose ticket is called "time", and an ordinary one
RowA == << <<"d">>, time, <<"1", "h", " ", "3", "0", "m", "i", "n">>, <<>> >>
RowB == << <<"d">>, <<"x">>, <<"4", "5", "m", "i", "n">>, <<>> >>

RowPool == {SHEET_COLUMN_NAMES, RowA}

\* the sheets of at most n rows, at most one of them the header row
HeaderRows(s) == Cardinality({k \in 1..Len(s) : s[k] = SHEET_COLUMN_NAMES})

SheetsOf(n) ==
    UNION { {s \in [1..m -> RowPool] : HeaderRows(s) <= 1} : m \in 0..n }

\* the sheets of the second sheet: well-formed, without a header row, empty
FebruarySheets == { <<SHEET_COLUMN_NAMES, RowB>>, <<RowB>>, <<>> }

SheetNameArgs == {"January", "February", "March"}
ColumnArgs == {time}
IndexArgs == {NoneValue, IntValue(0), IntValue(1), StrValue(0), StrValue(1)}

Range(list) == {list[k] : k \in 1..Len(list)}

\* pc.get_book(file_name): every sheet unconfigured
Workbooks ==
    { [n \in {"January", "February"} |->
          [colnames |-> <<>>, rows |-> IF n = "January" THEN j ELSE f]]
      : j \in SheetsOf(MaxRows), f \in FebruarySheets }

NoSheet == [loaded |-> FALSE, colnames |-> <<>>, rows |-> <<>>]

\* OdsBook(file_path), or main.py at its start
Init ==
    /\ program \in {"parser.py", "main.py"}
    /\ sheet_names = <<"January", "February">>
    /\ book0 \in Workbooks
    /\ book = book0
    /\ _sheet = "None"
    /\ main_sheet = NoSheet
    /\ stdout = <<>>
    /\ time_list = <<>>
    /\ ret = None

----------------------------------------------------------------------------
(* Calls on an OdsBook (src/parser.py).                                    *)

\* ods.load_sheet(sheet_name, name_columns_by_row)
LoadSheet(sheet_name, idx) ==
    /\ program = "parser.py"
    /\ LET r == load_sheet(book, _sheet, sheet_name, idx)
       IN  /\ book' = r.book
           /\ _sheet' = r._sheet
           /\ ret' = Ret("load_sheet", r.status, <<>>, sheet_name, idx, 0)
    /\ UNCHANGED <<program, time_list, sheet_names, main_sheet, stdout, book0>>

\* ods.sheet
SheetProperty ==
    /\ program = "parser.py"
    /\ LET r == sheet_property(_sheet)
       IN  ret' = Ret("sheet", r.status, r.value, <<>>, NoneValue, 0)
    /\ UNCHANGED <<program, time_list, book, sheet_names, _sheet, main_sheet,
                   stdout, book0>>

\* ods.sheet.get_column_data(column_name)
SheetGetColumnData(column_name) ==
    /\ program = "parser.py"
    /\ LET s == sheet_property(_sheet)
           r == get_column_data(book[s.value], column_name)
       IN  ret' = IF s.status # "ok"
                  THEN Ret("get_column_data", s.status, <<>>, column_name, NoneValue, 0)
                  ELSE Ret("get_column_data", r.status, r.value, column_name,
                           NoneValue, 0)
    /\ UNCHANGED <<program, time_list, book, sheet_names, _sheet, main_sheet,
                   stdout, book0>>

\* ods.sheet.get_total_hours(column_name)
SheetGetTotalHours(column_name) ==
    /\ program = "parser.py"
    /\ LET s == sheet_property(_sheet)
           r == TimeSheet_get_total_hours(book[s.value], column_name)
       IN  ret' = IF s.status # "ok"
                  THEN Ret("sheet.get_total_hours", s.status, 0, column_name,
                           NoneValue, 0)
                  ELSE Ret("sheet.get_total_hours", r.status, r.value, column_name,
                           NoneValue, 0)
    /\ UNCHANGED <<program, time_list, book, sheet_names, _sheet, main_sheet,
                   stdout, book0>>

\* ods.get_total_hours(column_name, name_columns_by_row)
BookGetTotalHours(column_name, idx) ==
    /\ program = "parser.py"
    /\ LET r == OdsBookTimeSheets_get_total_hours(book, sheet_names, column_name, idx)
       IN  /\ book' = r.book
           /\ ret' = Ret("get_total_hours", r.status, r.value, column_name, idx, r.at)
    /\ UNCHANGED <<program, time_list, sheet_names, _sheet, main_sheet, stdout,
                   book0>>

\* ods.print_total_hours(column_name, name_columns_by_row)
PrintTotalHours(column_name, idx) ==
    /\ program = "parser.py"
    /\ LET r == OdsBookTimeSheets_get_total_hours(book, sheet_names, column_name, idx)
       IN  /\ book' = r.book
           /\ stdout' = stdout \o print_total_hours(r)
           /\ ret' = Ret("print_total_hours", r.status, <<>>, column_name, idx, r.at)
    /\ UNCHANGED <<program, time_list, sheet_names, _sheet, main_sheet, book0>>

----------------------------------------------------------------------------
(* The steps of the standalone script (src/main.py).                       *)

\* sheet = get_sheet_data_by_name(sheet_name, file_path): read from the file
MainGetSheet(sheet_name) ==
    /\ program = "main.py"
    /\ ~main_sheet.loaded
    /\ sheet_name \in DOMAIN book0
    /\ main_sheet' = [loaded |-> TRUE, colnames |-> book0[sheet_name].colnames,
                      rows |-> book0[sheet_name].rows]
    /\ ret' = Ret("get_sheet_data_by_name", "ok", <<>>, sheet_name, NoneValue, 0)
    /\ UNCHANGED <<program, time_list, book, sheet_names, _sheet, stdout, book0>>

\* sheet.colnames = SHEET_COLUMN_NAMES
MainSetColnames ==
    /\ program = "main.py"
    /\ main_sheet.loaded
    /\ main_sheet.colnames = <<>>
    /\ main_sheet' = [main_sheet EXCEPT !.colnames = make_names_unique(SHEET_COLUMN_NAMES)]
    /\ ret' = Ret("colnames", "ok", <<>>, <<>>, NoneValue, 0)
    /\ UNCHANGED <<program, time_list, book, sheet_names, _sheet, stdout, book0>>

\* column_data = get_column_data(sheet, column_name)
MainGetColumnData(column_name) ==
    /\ program = "main.py"
    /\ main_sheet.loaded
    /\ stdout = <<>>
    /\ LET r == get_column_data(main_sheet, column_name)
       IN  /\ ret' = Ret("main.get_column_data", r.status, r.value, column_name,
                         NoneValue, 0)
           /\ time_list' = r.value
    /\ UNCHANGED <<program, book, sheet_names, _sheet, main_sheet, stdout, book0>>

\* total_hours = get_total_hours(column_data); print(total_hours)
MainPrintTotalHours ==
    /\ program = "main.py"
    /\ ret.op = "main.get_column_data"
    /\ ret.status = "ok"
    /\ LET total_hours == main_get_total_hours(time_list)
       IN  /\ stdout' = Append(stdout, <<total_hours>>)
           /\ ret' = Ret("main.get_total_hours", "ok", total_hours, <<>>, NoneValue, 0)
    /\ UNCHANGED <<program, time_list, book, sheet_names, _sheet, main_sheet, book0>>

Next ==
    \/ \E n \in SheetNameArgs, i \in IndexArgs : LoadSheet(n, i)
    \/ SheetProperty
    \/ \E c \in ColumnArgs : SheetGetColumnData(c)
    \/ \E c \in ColumnArgs : SheetGetTotalHours(c)
    \/ \E c \in ColumnArgs, i \in IndexArgs : BookGetTotalHours(c, i)
    \/ \E c \in ColumnArgs, i \in IndexArgs : PrintTotalHours(c, i)
    \/ \E n \in SheetNameArgs : MainGetSheet(n)
    \/ MainSetColnames
    \/ \E c \in ColumnArgs : MainGetColumnData(c)
    \/ MainPrintTotalHours

Spec == Init /\ [][Next]_vars

----------------------------------------------------------------------------
(* Inputs of the parser: lists of at most MaxEntries strings, built from    *)
(* at most MaxAtoms fragments in all.                                       *)

Atoms == { <<"1">>, <<" ">>, <<"h">>, <<"m", "i", "n">>, <<"o", "u", "r">> }

\* the fragments f[i], i from position p on, that are put into entry e
RECURSIVE EntryFrom(_, _, _, _)
EntryFrom(f, g, e, p) ==
    IF p > Len(f) THEN <<>>
    ELSE (IF g[p] = e THEN f[p] ELSE <<>>) \o EntryFrom(f, g, e, p + 1)

\* k entries made of the fragments f, fragment i going to entry g[i]
Entries(f, g, k) == [e \in 1..k |-> EntryFrom(f, g, e, 1)]

\* the ways to put n fragments, in order, into k entries
Cuts(n, k) == {h \in [1..n -> 1..k] : \A a \in 1..(n - 1) : h[a] <= h[a + 1]}

\* no workbook: the parser alone
EmptyBook == [n \in {} |-> NoSheet]

InitParse ==
    /\ program = "parser"
    /\ \E n \in 0..MaxAtoms, k \in 0..MaxEntries :
           \E f \in [1..n -> Atoms], g \in Cuts(n, k) :
               time_list = Entries(f, g, k)
    /\ book = EmptyBook
    /\ book0 = EmptyBook
    /\ sheet_names = <<>>
    /\ _sheet = "None"
    /\ main_sheet = NoSheet
    /\ stdout = <<>>
    /\ ret = None

\* TimeColumn(time_list).value
TimeColumnValue ==
    /\ program = "parser"
    /\ ret' = Ret("TimeColumn.value", "ok", TimeColumn_get_total_hours(time_list),
                  <<>>, NoneValue, 0)
    /\ UNCHANGED <<program, time_list, book, sheet_names, _sheet, main_sheet,
                   stdout, book0>>

\* main.get_total_hours(time_list)
MainGetTotalHours ==
    /\ program = "parser"
    /\ ret' = Ret("main.get_total_hours", "ok", main_get_total_hours(time_list),
                  <<>>, NoneValue, 0)
    /\ UNCHANGED <<program, time_list, book, sheet_names, _sheet, main_sheet,
                   stdout, book0>>

NextParse == TimeColumnValue \/ MainGetTotalHours

SpecParse == InitParse /\ [][NextParse]_vars

----------------------------------------------------------------------------
(* Properties of the duration parser, checked under SpecParse.             *)

Parsed == ret.op \in {"TimeColumn.value", "main.get_total_hours"}

\* the text the tokens are looked for in: the entries separated by a space
Scratch == join(<<" ">>, time_list)

\* a maximal run of digits of s starts at i
RunStartsAt(s, i) == s[i] \in Digits /\ (i = 1 \/ s[i - 1] \notin Digits)

\* the last position of the maximal run of digits that starts at i
RunEnd(s, i) ==
    CHOOSE e \in i..Len(s) :
        /\ \A j \in i..e : s[j] \in Digits
        /\ e = Len(s) \/ s[e + 1] \notin Digits

WordAt(s, i, w) ==
    i + Len(w) - 1 <= Len(s) /\ \A j \in 1..Len(w) : s[i + j - 1] = w[j]

\* where the unit marker starts after the run ending at e, at most one
\* whitespace character in between; 0 if the run is not followed by it
MarkerAfter(s, e, unit) ==
    IF WordAt(s, e + 1, unit) THEN e + 1
    ELSE IF e + 1 <= Len(s) /\ s[e + 1] \in Whitespace /\ WordAt(s, e + 2, unit)
    THEN e + 2
    ELSE 0

RECURSIVE Pow10(_)
Pow10(n) == IF n = 0 THEN 1 ELSE 10 * Pow10(n - 1)

RECURSIVE RunValue(_, _, _)
RunValue(s, i, e) ==
    IF i > e THEN 0 ELSE DigitValue(s[i]) * Pow10(e - i) + RunValue(s, i + 1, e)

\* the sum of the integers of the tokens of a unit whose start is at i or later
RECURSIVE TokenSumFrom(_, _, _)
TokenSumFrom(s, i, unit) ==
    IF i > Len(s) THEN 0
    ELSE (IF RunStartsAt(s, i) /\ MarkerAfter(s, RunEnd(s, i), unit) # 0
          THEN RunValue(s, i, RunEnd(s, i)) ELSE 0)
         + TokenSumFrom(s, i + 1, unit)

HourTokens(s) == TokenSumFrom(s, 1, <<"h">>)
MinuteTokens(s) == TokenSumFrom(s, 1, <<"m", "i", "n">>)

\* C1: for every input sequence, both get_total_hours return the sum of the
\* integers of the hour tokens plus the sum of the integers of the minute
\* tokens divided by 60, the tokens being those of the entries joined by a
\* space; a kind without tokens contributes 0, the empty sequence gives 0.
C1_TotalIsTokenSum ==
    Parsed => ret.value = 60 * HourTokens(Scratch) + MinuteTokens(Scratch)

\* "1h", "1min" has been summed to an hour and a minute
C1_Witness ==
    /\ ret.op = "TimeColumn.value"
    /\ time_list = << <<"1", "h">>, <<"1", "m", "i", "n">> >>
    /\ ret.value = 61

\* C5: the total of a sequence is the sum of the totals of its entries taken
\* one by one, so joining entries creates and destroys no token.
C5_SumOfEntryTotals ==
    Parsed =>
        ret.value = sum([k \in 1..Len(time_list) |->
                            TimeColumn_get_total_hours(<<time_list[k]>>)])

\* the sum of the integers of the tokens of a unit whose marker is not the
\* beginning of a longer word
RECURSIVE ExactTokenSumFrom(_, _, _)
ExactTokenSumFrom(s, i, unit) ==
    IF i > Len(s) THEN 0
    ELSE (IF /\ RunStartsAt(s, i)
             /\ MarkerAfter(s, RunEnd(s, i), unit) # 0
             /\ LET after == MarkerAfter(s, RunEnd(s, i), unit) + Len(unit)
                IN  after > Len(s) \/ s[after] \notin Letters
          THEN RunValue(s, i, RunEnd(s, i)) ELSE 0)
         + ExactTokenSumFrom(s, i + 1, unit)

\* C6 as stated: a digit run followed by a longer word that starts with the
\* unit marker ("1hour", "5 minutes") contributes 0; only runs followed by
\* exactly h or min count.
C6_PartialWordsIgnored ==
    Parsed =>
        ret.value = 60 * ExactTokenSumFrom(Scratch, 1, <<"h">>)
                    + ExactTokenSumFrom(Scratch, 1, <<"m", "i", "n">>)

\* some run of digits of s is followed by the marker of a unit and is not 0
RunWithMarker(s) ==
    \E i \in 1..Len(s) :
        /\ RunStartsAt(s, i)
        /\ RunValue(s, i, RunEnd(s, i)) > 0
        /\ \/ MarkerAfter(s, RunEnd(s, i), <<"h">>) # 0
           \/ MarkerAfter(s, RunEnd(s, i), <<"m", "i", "n">>) # 0

\* C6 amended: a number contributes exactly when it is followed, after at
\* most one whitespace, by the marker h or min, whatever follows the marker:
\* the total is 0 if and only if no non-zero digit run is followed by a marker
\* (a bare "30" gives 0, "1hour" does not).
C6_MarkerDecides == Parsed => (ret.value > 0 <=> RunWithMarker(Scratch))

\* "1hour" has been summed to one hour
C6_Witness ==
    /\ Parsed
    /\ time_list = << <<"1", "h", "o", "u", "r">> >>
    /\ ret.value = 60

----------------------------------------------------------------------------
(* Properties of the sheets and the book, checked under Spec.              *)

\* C2: computing the workbook total again, after any earlier derivation of
\* its sheets, gives what computing it on the workbook as loaded gives, and
\* raises no error that the workbook as loaded does not raise.
C2_RederivingIsIdempotent ==
    ret.op = "get_total_hours" =>
        LET first == OdsBookTimeSheets_get_total_hours(book0, sheet_names,
                                                       ret.arg, ret.idx)
        IN  ret.status = first.status /\ ret.value = first.value

\* C3: the sheet names and the rows of every sheet stay as they were loaded.
C3_WorkbookUnchanged ==
    /\ DOMAIN book = DOMAIN book0
    /\ \A n \in DOMAIN book0 : book[n].rows = book0[n].rows

\* the time column of a sheet of the workbook as loaded: the cells below the
\* header column_name, the header row being row idx (row 0 by default)
HeaderRowOf(idx) == IF idx.type = "int" THEN idx.n + 1 ELSE 1

ColumnOf(rows, column_name, idx) ==
    LET h == HeaderRowOf(idx)
        c == CHOOSE c \in 1..Len(rows[h]) :
                 rows[h][c] = column_name /\ \A j \in 1..(c - 1) : rows[h][j] # column_name
        data == RemoveAt(rows, h)
    IN  [r \in 1..Len(data) |-> data[r][c]]

HasColumn(rows, column_name, idx) ==
    /\ HeaderRowOf(idx) <= Len(rows)
    /\ column_name \in Range(rows[HeaderRowOf(idx)])

\* C4: a successful workbook total has one (name, total) entry per sheet, in
\* the order of the sheet names, each total being total_hours of that
\* sheet's time column in the workbook, and the grand total is their sum.
C4_WorkbookTotal ==
    (ret.op = "get_total_hours" /\ ret.status = "ok") =>
        LET list == ret.value[1]
        IN  /\ Len(list) = Len(sheet_names)
            /\ \A k \in 1..Len(list) :
                   /\ list[k][1] = sheet_names[k]
                   /\ HasColumn(book0[sheet_names[k]].rows, ret.arg, ret.idx)
                   /\ list[k][2] = TimeColumn_get_total_hours(
                          ColumnOf(book0[sheet_names[k]].rows, ret.arg, ret.idx))
            /\ ret.value[2] = sum([k \in 1..Len(list) |-> list[k][2]])

\* C7: configuring with a header row index that is given and is not an
\* integer fails with IsNoneException; None is row 0.
C7_NonIntegerRejected ==
    (ret.op = "load_sheet" /\ ret.arg \in DOMAIN book) =>
        /\ ret.idx.type \notin {"int", "NoneType"} => ret.status = "IsNoneException"
        /\ ret.idx.type \in {"int", "NoneType"} => ret.status # "IsNoneException"

\* C8: a workbook total or report that fails at a sheet returns nothing,
\* prints nothing, and touches no sheet after the failing one.
C8_NoPartialResults ==
    [][ (ret'.op \in {"get_total_hours", "print_total_hours"} /\ ret'.status # "ok")
        => /\ ret'.value = <<>>
           /\ stdout' = stdout
           /\ ret'.at \in 1..Len(sheet_names)
           /\ \A k \in (ret'.at + 1)..Len(sheet_names) :
                  book'[sheet_names[k]] = book[sheet_names[k]] ]_vars

\* a report failed at the second sheet, the first one having been summed
C8_Witness ==
    /\ ret.op = "print_total_hours"
    /\ ret.status # "ok"
    /\ ret.at = 2
    /\ book["January"].colnames # <<>>
    /\ stdout = <<>>

\* what C9 says of an extraction from sheet sh whose outcome is ret
Extraction(sh) ==
    /\ sh.colnames = <<>> => (ret.status = "ValueError" /\ ret.value = <<>>)
    /\ ret.status = "ok" => (sh.colnames # <<>> /\ ret.arg \in Range(sh.colnames))
    /\ ret.arg \notin Range(sh.colnames) => ret.status = "ValueError"

\* C9: extracting a column from a sheet without assigned headers fails and
\* returns no values; an extraction succeeds only from a configured sheet
\* and only for a name among its headers, and fails with ValueError otherwise.
C9_ExtractionNeedsHeaders ==
    /\ ret.op = "main.get_column_data" => Extraction(main_sheet)
    /\ (ret.op = "get_column_data" /\ _sheet # "None") => Extraction(book[_sheet])

\* the script extracted from a sheet before naming its columns, and failed
C9_Witness ==
    /\ ret.op = "main.get_column_data"
    /\ main_sheet.colnames = <<>>
    /\ main_sheet.rows # <<>>
    /\ ret.status = "ValueError"

\* C10: _sheet is None until a load_sheet succeeds; a successful load_sheet
\* makes it the view of the named sheet, a failing one leaves it and the
\* book as they are, nothing else changes it; the accessor fails exactly
\* when it is None and otherwise returns it.
C10_LoadedSheet ==
    /\ _sheet = "None"
    /\ [][ /\ (ret'.op = "load_sheet" /\ ret'.status = "ok") => _sheet' = ret'.arg
           /\ (ret'.op = "load_sheet" /\ ret'.status # "ok")
                  => (_sheet' = _sheet /\ book' = book)
           /\ ret'.op # "load_sheet" => _sheet' = _sheet
           /\ ret'.op = "sheet"
                  => /\ ret'.status = "AssertionError" <=> _sheet = "None"
                     /\ ret'.status = "ok" => ret'.value = _sheet ]_vars

\* a load of an unknown sheet failed after January had been loaded
C10_Witness ==
    /\ ret.op = "load_sheet"
    /\ ret.status = "KeyError"
    /\ _sheet = "January"

====
